---------------------------- MODULE Spec2Model ----------------------------
(***************************************************************************)
(* Model of MPASA_mesh_generation.                                         *)
(*                                                                         *)
(*   mesh_gen_MPASA.py        cellWidthVsLatLon() and main(): one run of   *)
(*                            the script, statement group by statement     *)
(*                            group (specification Spec).                  *)
(*   plot_cellWidth_raw_mesh.py   the preview script, statement group by   *)
(*                            statement group (specification PlotSpec).    *)
(*                                                                         *)
(* Numbers.  Cell widths are Python/numpy binary64 values.  They are       *)
(* modelled as integers (multiples of one quantum) that carry at most      *)
(* MantissaBits significant bits; every width operation rounds to nearest, *)
(* ties to even, as IEEE-754 does (operator fl).  Distances are integer    *)
(* metres; sin, cos, asin and exp are fixed-point approximations.          *)
(***************************************************************************)
EXTENDS Integers, Sequences, FiniteSets, TLC

(***************************************************************************)
(* Bounds of the model.                                                    *)
(***************************************************************************)
MaxWindows == 2      \* longest window list drawn for a configuration
MantissaBits == 3    \* significant bits kept by the modelled float format
MaxPoints == 4       \* most mesh cells in the file read by the preview script

(***************************************************************************)
(* Program constants.                                                      *)
(***************************************************************************)
EarthRadiusKm == 6371     \* 6371000.0 m, used as 6371 * (radians * 1000)
KmToMetres == 1000        \* diam[k] * 1000.0, sigx[k] * 1000.0
MinValidPoints == 3       \* if lon.size < 3: raise
FullTurn == 360           \* % 360.0
HalfTurn == 180           \* + 180.0, - 180.0

(***************************************************************************)
(* Arithmetic helpers.                                                     *)
(***************************************************************************)
Abs(x) == IF x < 0 THEN -x ELSE x

Sgn(x) == IF x < 0 THEN -1 ELSE 1

RECURSIVE Pow2(_)
Pow2(n) == IF n <= 0 THEN 1 ELSE 2 * Pow2(n - 1)

\* Python int(a / b) for b # 0: the quotient truncated toward zero.
TruncDiv(a, b) == Sgn(a) * Sgn(b) * (Abs(a) \div Abs(b))

\* Integer division rounded to nearest (used by the fixed-point helpers).
RoundDiv(a, b) == (2 * a + b) \div (2 * b)

\* The spacing of representable values at magnitude a: the least power of two u
\* with a < u * 2^MantissaBits.
RECURSIVE UlpFrom(_, _)
UlpFrom(a, u) == IF a < u * Pow2(MantissaBits) THEN u ELSE UlpFrom(a, 2 * u)

\* Round-to-nearest, ties-to-even, of the exact result x of one float operation.
fl(x) ==
    LET a == Abs(x)
        u == UlpFrom(a, 1)
        q == a \div u
        r == a % u
        m == IF 2 * r > u \/ (2 * r = u /\ q % 2 = 1) THEN q + 1 ELSE q
    IN  Sgn(x) * m * u

Representable(x) == fl(x) = x

(***************************************************************************)
(* haversine (mesh_gen_MPASA.py:32-46).  Angles are whole degrees that are *)
(* multiples of 15; a half angle is therefore a multiple of 7.5 degrees    *)
(* and the sine table holds 10000*sin at those steps.                      *)
(***************************************************************************)
SinTable == <<0, 1305, 2588, 3827, 5000, 6088, 7071, 7934, 8660, 9239, 9659, 9914, 10000>>

TrigOne == 10000

\* 10000 * sin(h / 2 degrees) for a whole number h of half-degrees, h a
\* multiple of 15; sin is odd and symmetric about 90 degrees.
SinHalfDeg(h) ==
    LET t == Abs(h) % 720
        s == IF t >= 360 THEN -1 ELSE 1
        t2 == t % 360
        t3 == IF t2 > 180 THEN 360 - t2 ELSE t2
    IN  Sgn(h) * s * SinTable[(t3 \div 15) + 1]

\* 10000 * cos(d degrees), d a multiple of 15.
CosDeg(d) == SinHalfDeg(2 * (90 - d))

\* floor(sqrt(n)) for 0 <= n < 2^30, bit by bit.
RECURSIVE SqrtBits(_, _, _)
SqrtBits(n, r, b) ==
    IF b = 0 THEN r
    ELSE IF (r + b) * (r + b) <= n THEN SqrtBits(n, r + b, b \div 2)
         ELSE SqrtBits(n, r, b \div 2)

ISqrt(n) == SqrtBits(n, 0, 16384)

\* asin of s / 10000 in units of 1/100 degree, by linear interpolation in the
\* sine table; s in 0 .. 10000.
RECURSIVE AsinIndex(_, _)
AsinIndex(s, i) == IF i < 12 /\ SinTable[i + 2] <= s THEN AsinIndex(s, i + 1) ELSE i

AsinCentiDeg(s) ==
    LET i == AsinIndex(s, 0)
    IN  IF i >= 12 THEN 9000
        ELSE i * 750 + ((s - SinTable[i + 1]) * 750) \div (SinTable[i + 2] - SinTable[i + 1])

\* Great-circle distance in metres between (lon1, lat1) and (lon2, lat2), degrees.
haversine(lon1, lat1, lon2, lat2) ==
    LET dlon == lon2 - lon1
        dlat == lat2 - lat1
        sdlat == SinHalfDeg(dlat)
        sdlon == SinHalfDeg(dlon)
        a == sdlat * sdlat
             + ((CosDeg(lat1) * CosDeg(lat2)) \div TrigOne) * ((sdlon * sdlon) \div TrigOne)
        root == ISqrt(a)
        halfc == AsinCentiDeg(IF root > TrigOne THEN TrigOne ELSE root)
        c == (2 * halfc * 31416) \div 18000       \* radians * 10000
    IN  (EarthRadiusKm * c) \div 10

(***************************************************************************)
(* The Gaussian profile (mesh_gen_MPASA.py:165-166).                       *)
(***************************************************************************)
ExpOne == 256          \* fixed-point 1.0 of the exponential
Ln2Fixed == 177        \* ln 2 in units of 1/256
RatioCap == 64         \* 4 transition widths, in units of 1/16

\* 256 * exp(-t / 256), t >= 0: exp(-t) = 2^-q * exp(-r) with r in [0, ln 2),
\* exp(-r) by its Taylor polynomial of degree 3.  The result is 0 once the
\* value drops below one unit (underflow).
ExpNeg(t) ==
    LET q == t \div Ln2Fixed
        r == t % Ln2Fixed
        p == ExpOne - r + (r * r) \div 512 - (r * r * r) \div 393216
    IN  p \div Pow2(q)

\* 256 * tmp, tmp = 0.5*((gdist - diam/2.0)/sigx)**2.0, sigx # 0.  The ratio is
\* taken in units of 1/16 and capped: beyond the cap exp(-tmp) has underflowed.
GaussTmp(gdist, diamM, sigM) ==
    LET r16 == (Abs(2 * gdist - diamM) * 8) \div Abs(sigM)
        rc == IF r16 > RatioCap THEN RatioCap ELSE r16
    IN  (rc * rc) \div 2

\* gdist < diam[k]/2.0
InCoreNever(gdist, diamM) == FALSE

InCore(gdist, diamM) == 2 * gdist < diamM

\* amp * np.exp(-tmp): one rounded float product.
GaussTimesAmp(ampv, tmp) == fl(RoundDiv(ampv * ExpNeg(tmp), ExpOne))

\* The value stored in cellWidth[k,j,i] (lines 160-166), sigx # 0 outside the core.
CellContribution(ampv, gdist, diamM, sigM) ==
    IF InCore(gdist, diamM) THEN ampv
    ELSE GaussTimesAmp(ampv, GaussTmp(gdist, diamM, sigM))

\* np.where(x < amp, x, amp)
ClipNone(s, ampv) == s

Clip(s, ampv) == IF s < ampv THEN s ELSE ampv

\* maxdx - x
SubtractSwapped(mx, c) == fl(c - mx)

SubtractFrom(mx, c) == fl(mx - c)

\* One step of np.sum(cellWidth, axis=0): acc + c, rounded.
AddTakesMax(acc, c) == IF acc < c THEN c ELSE acc

AddFloat(acc, c) == fl(acc + c)

\* diam[k] * 1000.0
MetresForgotten(km) == km

Metres(km) == km * KmToMetres

\* np.linspace(a, b, n)[idx], 0 <= idx < n.
LinspaceAt(a, b, n, idx) == IF n = 1 THEN a ELSE a + RoundDiv(idx * (b - a), n - 1)

Linspace(a, b, n) == [idx \in 1..n |-> LinspaceAt(a, b, n, idx - 1)]

(***************************************************************************)
(* Inputs of one run of mesh_gen_MPASA.py: the content of config_mesh.xml. *)
(* A window row holds clon, clat, diam, sigx and, when hasDxMin, a fifth   *)
(* column dxMin.  Widths are values of the modelled float format.          *)
(***************************************************************************)
Widths == {0, 1, 3, 4, 24}

WindowRows ==
    { [clon |-> 0,  clat |-> 0,  diam |-> 2000,  sigx |-> 500,   hasDxMin |-> FALSE, dxMin |-> 0],
      [clon |-> 90, clat |-> 45, diam |-> 4000,  sigx |-> 5000,  hasDxMin |-> TRUE,  dxMin |-> 3],
      [clon |-> 0,  clat |-> 0,  diam |-> 0,     sigx |-> 5000,  hasDxMin |-> TRUE,  dxMin |-> 1],
      [clon |-> 0,  clat |-> 0,  diam |-> 2000,  sigx |-> 0,     hasDxMin |-> TRUE,  dxMin |-> 1],
      [clon |-> 0,  clat |-> 0,  diam |-> -2000, sigx |-> -5000, hasDxMin |-> TRUE,  dxMin |-> 1] }

WindowLists == UNION { [1..n -> WindowRows] : n \in 0..MaxWindows }

\* <<dlonBase, dlatBase>>
Spacings == { <<180, 90>>, <<120, 90>>, <<180, 0>>, <<0, 90>>, <<180, -180>>, <<-180, 90>> }

Configs ==
    { c \in [ dxWindowConst : BOOLEAN, dxMax : Widths, dxMin : Widths,
              hasWindowText : BOOLEAN, rows : WindowLists,
              dlonBase : {sp[1] : sp \in Spacings}, dlatBase : {sp[2] : sp \in Spacings} ] :
        /\ <<c.dlonBase, c.dlatBase>> \in Spacings
        /\ (~c.dxWindowConst => c.dxMin = 0)           \* dxMin is not read
        /\ (~c.hasWindowText => c.rows = <<>>) }       \* <windowDxConst/> has no text

VARIABLES
    cfg,          \* config_mesh.xml
    pc,           \* position in cellWidthVsLatLon() / main()
    err,          \* the exception that ended the run, "" if none
    meshType, maxdx, mindx, mindxBound,
    nw, clon, clat, diam, sigx, dxMin,
    nlat, nlon, lat, lon,
    amp, cellWidth, k, j, i,
    ret,          \* the field returned by cellWidthVsLatLon()
    meshField,    \* the field handed to build_spherical_mesh
    pts, ppc, perr, lonP, latP, val, levels, rendered   \* the preview script

meshVars == <<cfg, pc, err, meshType, maxdx, mindx, mindxBound, nw, clon, clat, diam,
              sigx, dxMin, nlat, nlon, lat, lon, amp, cellWidth, k, j, i, ret, meshField>>

plotVars == <<pts, ppc, perr, lonP, latP, val, levels, rendered>>

vars == <<meshVars, plotVars>>

PlotIdle ==
    /\ pts = <<>> /\ ppc = "idle" /\ perr = "" /\ lonP = <<>> /\ latP = <<>>
    /\ val = <<>> /\ levels = <<>> /\ rendered = <<>>

Init ==
    /\ cfg \in Configs
    /\ pc = "start" /\ err = ""
    /\ meshType = "" /\ maxdx = 0 /\ mindx = 0 /\ mindxBound = FALSE
    /\ nw = 0 /\ clon = <<>> /\ clat = <<>> /\ diam = <<>> /\ sigx = <<>> /\ dxMin = <<>>
    /\ nlat = 0 /\ nlon = 0 /\ lat = <<>> /\ lon = <<>>
    /\ amp = 0 /\ cellWidth = <<>> /\ k = 0 /\ j = 0 /\ i = 0
    /\ ret = <<>> /\ meshField = <<>>
    /\ PlotIdle

Raise(e) == pc' = "error" /\ err' = e

\* Lines 72-80.
MeshTypeIgnoresFlag(flag, mn, mx) == IF mn = mx THEN "QU" ELSE "VR"

MeshTypeOf(flag, mn, mx) == IF flag /\ mn = mx THEN "QU" ELSE "VR"

\* Lines 66-113: parse config_mesh.xml.
ReadConfig ==
    /\ pc = "start"
    /\ maxdx' = cfg.dxMax
    /\ mindx' = (IF cfg.dxWindowConst THEN cfg.dxMin ELSE mindx)
    /\ mindxBound' = cfg.dxWindowConst
    /\ meshType' = MeshTypeOf(cfg.dxWindowConst, cfg.dxMin, cfg.dxMax)
    /\ IF meshType' = "VR"
       THEN IF ~cfg.hasWindowText
            THEN \* line 91: None.strip()
                 /\ Raise("AttributeError")
                 /\ UNCHANGED <<nw, clon, clat, diam, sigx, dxMin>>
            ELSE /\ nw' = Len(cfg.rows)
                 /\ clon' = [n \in 1..Len(cfg.rows) |-> cfg.rows[n].clon]
                 /\ clat' = [n \in 1..Len(cfg.rows) |-> cfg.rows[n].clat]
                 /\ diam' = [n \in 1..Len(cfg.rows) |-> cfg.rows[n].diam]
                 /\ sigx' = [n \in 1..Len(cfg.rows) |-> cfg.rows[n].sigx]
                 /\ IF cfg.dxWindowConst
                    THEN /\ dxMin' = [n \in 1..Len(cfg.rows) |-> cfg.dxMin]
                         /\ pc' = "grid" /\ err' = err
                    ELSE IF \E n \in 1..Len(cfg.rows) : ~cfg.rows[n].hasDxMin
                         THEN \* line 107: rows[iw][4] of a four-column row
                              /\ dxMin' = <<>>
                              /\ Raise("IndexError")
                         ELSE /\ dxMin' = [n \in 1..Len(cfg.rows) |-> cfg.rows[n].dxMin]
                              /\ pc' = "grid" /\ err' = err
       ELSE /\ nw' = 0
            /\ pc' = "grid" /\ err' = err
            /\ UNCHANGED <<clon, clat, diam, sigx, dxMin>>
    /\ UNCHANGED <<cfg, nlat, nlon, lat, lon, amp, cellWidth, k, j, i, ret, meshField>>
    /\ UNCHANGED plotVars

\* Lines 117-120: the latitude-longitude grid.
BuildGrid ==
    /\ pc = "grid"
    /\ IF cfg.dlatBase = 0 \/ cfg.dlonBase = 0
       THEN /\ Raise("ZeroDivisionError")
            /\ UNCHANGED <<nlat, nlon, lat, lon>>
       ELSE LET nla == TruncDiv(180, cfg.dlatBase) + 1
                nlo == TruncDiv(360, cfg.dlonBase) + 1
            IN  IF nla < 0 \/ nlo < 0
                THEN \* np.linspace: number of samples must be non-negative
                     /\ Raise("ValueError")
                     /\ UNCHANGED <<nlat, nlon, lat, lon>>
                ELSE /\ nlat' = nla /\ nlon' = nlo
                     /\ lat' = Linspace(-90, 90, nla)
                     /\ lon' = Linspace(-180, 180, nlo)
                     /\ pc' = "report" /\ err' = err
    /\ UNCHANGED <<cfg, meshType, maxdx, mindx, mindxBound, nw, clon, clat, diam, sigx,
                   dxMin, amp, cellWidth, k, j, i, ret, meshField>>
    /\ UNCHANGED plotVars

\* Lines 125-138: the report; both branches print mindx.
PrintReport ==
    /\ pc = "report"
    /\ IF mindxBound THEN pc' = "branch" /\ err' = err
                     ELSE Raise("UnboundLocalError")
    /\ UNCHANGED <<cfg, meshType, maxdx, mindx, mindxBound, nw, clon, clat, diam, sigx,
                   dxMin, nlat, nlon, lat, lon, amp, cellWidth, k, j, i, ret, meshField>>
    /\ UNCHANGED plotVars

Cells == (0..(nlat - 1)) \X (0..(nlon - 1))

\* cellWidth[:,:,:] = maxdx
UniformFillZero(mx) == 0

UniformFill(mx) == mx

\* Lines 144-145: nw > 0, allocate one layer per window.
AllocWindows ==
    /\ pc = "branch" /\ nw > 0
    /\ cellWidth' = [n \in 0..(nw - 1) |-> [c \in Cells |-> 0]]
    /\ k' = 0
    /\ pc' = "convert"
    /\ UNCHANGED <<cfg, err, meshType, maxdx, mindx, mindxBound, nw, clon, clat, diam, sigx,
                   dxMin, nlat, nlon, lat, lon, amp, j, i, ret, meshField>>
    /\ UNCHANGED plotVars

\* Lines 171-173: no window, every cell is maxdx.
UniformField ==
    /\ pc = "branch" /\ ~(nw > 0)
    /\ cellWidth' = [n \in {0} |-> [c \in Cells |-> UniformFill(maxdx)]]
    /\ pc' = "plot"
    /\ UNCHANGED <<cfg, err, meshType, maxdx, mindx, mindxBound, nw, clon, clat, diam, sigx,
                   dxMin, nlat, nlon, lat, lon, amp, k, j, i, ret, meshField>>
    /\ UNCHANGED plotVars

\* Lines 147-149: window k's diameter and transition width, km to m.
ConvertWindow ==
    /\ pc = "convert" /\ k < nw
    /\ diam' = [diam EXCEPT ![k + 1] = Metres(diam[k + 1])]
    /\ sigx' = [sigx EXCEPT ![k + 1] = Metres(sigx[k + 1])]
    /\ k' = k + 1
    /\ UNCHANGED <<cfg, pc, err, meshType, maxdx, mindx, mindxBound, nw, clon, clat, dxMin,
                   nlat, nlon, lat, lon, amp, cellWidth, j, i, ret, meshField>>
    /\ UNCHANGED plotVars

\* amp = maxdx - mindx
Amplitude(mx, mn) == fl(mx - mn)

\* Line 151, then the loop headers of lines 153-155.
ComputeAmp ==
    /\ pc = "convert" /\ k = nw
    /\ IF ~mindxBound
       THEN /\ Raise("UnboundLocalError")
            /\ UNCHANGED <<amp, k, j, i>>
       ELSE /\ amp' = Amplitude(maxdx, mindx)
            /\ k' = 0 /\ j' = 0 /\ i' = 0
            /\ pc' = (IF nlat > 0 /\ nlon > 0 THEN "loop" ELSE "sum")
            /\ err' = err
    /\ UNCHANGED <<cfg, meshType, maxdx, mindx, mindxBound, nw, clon, clat, diam, sigx, dxMin,
                   nlat, nlon, lat, lon, cellWidth, ret, meshField>>
    /\ UNCHANGED plotVars

\* Lines 157-166: the body of the loop for window k, latitude j, longitude i.
EvalCell ==
    /\ pc = "loop"
    /\ LET gdist == haversine(lon[i + 1], lat[j + 1], clon[k + 1], clat[k + 1])
       IN  IF ~InCore(gdist, diam[k + 1]) /\ sigx[k + 1] = 0
           THEN \* line 165: float division by zero
                /\ Raise("ZeroDivisionError")
                /\ UNCHANGED <<cellWidth, k, j, i>>
           ELSE /\ cellWidth' = [cellWidth EXCEPT ![k][<<j, i>>] =
                                    CellContribution(amp, gdist, diam[k + 1], sigx[k + 1])]
                /\ err' = err
                /\ IF i + 1 < nlon
                   THEN i' = i + 1 /\ UNCHANGED <<j, k, pc>>
                   ELSE IF j + 1 < nlat
                        THEN i' = 0 /\ j' = j + 1 /\ UNCHANGED <<k, pc>>
                        ELSE IF k + 1 < nw
                             THEN i' = 0 /\ j' = 0 /\ k' = k + 1 /\ pc' = pc
                             ELSE pc' = "sum" /\ UNCHANGED <<k, j, i>>
    /\ UNCHANGED <<cfg, meshType, maxdx, mindx, mindxBound, nw, clon, clat, diam, sigx, dxMin,
                   nlat, nlon, lat, lon, amp, ret, meshField>>
    /\ UNCHANGED plotVars

\* np.sum(cellWidth, axis=0) at cell c: layers 0 .. n added in order.
RECURSIVE SumLayers(_, _, _)
SumLayers(cw, c, n) ==
    IF n = 0 THEN cw[0][c] ELSE AddFloat(SumLayers(cw, c, n - 1), cw[n][c])

\* Line 168.
SumWindows ==
    /\ pc = "sum"
    /\ cellWidth' = [cellWidth EXCEPT ![0] = [c \in Cells |-> SumLayers(cellWidth, c, nw - 1)]]
    /\ pc' = "clip"
    /\ UNCHANGED <<cfg, err, meshType, maxdx, mindx, mindxBound, nw, clon, clat, diam, sigx,
                   dxMin, nlat, nlon, lat, lon, amp, k, j, i, ret, meshField>>
    /\ UNCHANGED plotVars

\* Line 169.
ClipSum ==
    /\ pc = "clip"
    /\ cellWidth' = [cellWidth EXCEPT ![0] = [c \in Cells |-> Clip(cellWidth[0][c], amp)]]
    /\ pc' = "subtract"
    /\ UNCHANGED <<cfg, err, meshType, maxdx, mindx, mindxBound, nw, clon, clat, diam, sigx,
                   dxMin, nlat, nlon, lat, lon, amp, k, j, i, ret, meshField>>
    /\ UNCHANGED plotVars

\* Line 170.
Subtract ==
    /\ pc = "subtract"
    /\ cellWidth' = [cellWidth EXCEPT ![0] = [c \in Cells |-> SubtractFrom(maxdx, cellWidth[0][c])]]
    /\ pc' = "plot"
    /\ UNCHANGED <<cfg, err, meshType, maxdx, mindx, mindxBound, nw, clon, clat, diam, sigx,
                   dxMin, nlat, nlon, lat, lon, amp, k, j, i, ret, meshField>>
    /\ UNCHANGED plotVars

\* The contour call of lines 181-187 is given levels that do not increase, or
\* a field smaller than 2 x 2.
ContourInputDegenerate ==
    \/ nlat < 2 \/ nlon < 2
    \/ meshType = "VR" /\ ~(mindx < maxdx)
    \/ meshType = "QU" /\ ~(maxdx > 0)

\* Lines 178-205: the figure is drawn and saved.
Plot ==
    /\ pc = "plot"
    /\ pc' = "return"
    /\ UNCHANGED <<cfg, err, meshType, maxdx, mindx, mindxBound, nw, clon, clat, diam, sigx,
                   dxMin, nlat, nlon, lat, lon, amp, cellWidth, k, j, i, ret, meshField>>
    /\ UNCHANGED plotVars

\* Line 186: the plotting library (outside the repository) may reject a
\* degenerate input; both outcomes are admitted.
PlotRaise ==
    /\ pc = "plot" /\ ContourInputDegenerate
    /\ Raise("ValueError")
    /\ UNCHANGED <<cfg, meshType, maxdx, mindx, mindxBound, nw, clon, clat, diam, sigx,
                   dxMin, nlat, nlon, lat, lon, amp, cellWidth, k, j, i, ret, meshField>>
    /\ UNCHANGED plotVars

\* Line 207: return cellWidth[0,:,:], lon, lat, foutName.
Return ==
    /\ pc = "return"
    /\ ret' = cellWidth[0]
    /\ pc' = "returned"
    /\ UNCHANGED <<cfg, err, meshType, maxdx, mindx, mindxBound, nw, clon, clat, diam, sigx,
                   dxMin, nlat, nlon, lat, lon, amp, cellWidth, k, j, i, meshField>>
    /\ UNCHANGED plotVars

\* Lines 213-217: main() hands the field to build_spherical_mesh.
BuildMesh ==
    /\ pc = "returned"
    /\ meshField' = ret
    /\ pc' = "done"
    /\ UNCHANGED <<cfg, err, meshType, maxdx, mindx, mindxBound, nw, clon, clat, diam, sigx,
                   dxMin, nlat, nlon, lat, lon, amp, cellWidth, k, j, i, ret>>
    /\ UNCHANGED plotVars

Next ==
    \/ ReadConfig
    \/ BuildGrid
    \/ PrintReport
    \/ AllocWindows
    \/ UniformField
    \/ ConvertWindow
    \/ ComputeAmp
    \/ EvalCell
    \/ SumWindows
    \/ ClipSum
    \/ Subtract
    \/ Plot
    \/ PlotRaise
    \/ Return
    \/ BuildMesh

Spec == Init /\ [][Next]_vars

(***************************************************************************)
(* plot_cellWidth_raw_mesh.py.  A value of the mesh file is a finite       *)
(* number, NaN or infinity.  lonCell and latCell are whole multiples of    *)
(* pi/6 radians; areaCell is in square metres.                             *)
(***************************************************************************)
Num(n) == [kind |-> "num", v |-> n]

NaN == [kind |-> "nan", v |-> 0]

Inf == [kind |-> "inf", v |-> 0]

\* np.isfinite
IsFinite(a) == a.kind = "num"

\* Degrees in pi/6 radians: x * (180.0/np.pi), lines 26-27.
DegPerUnit == 30

ToDegrees(a) == IF a.kind = "num" THEN Num(a.v * DegPerUnit) ELSE a

\* np.sqrt(areaCell) / 1000.0, line 28: the root of a negative number is NaN.
MetresPerKm == 1000

WidthOfArea(a) ==
    IF a.kind = "num"
    THEN IF a.v < 0 THEN NaN ELSE Num(ISqrt(a.v) \div MetresPerKm)
    ELSE a

MeshCells ==
    { [lonCell |-> Num(0),  latCell |-> Num(0),  areaCell |-> Num(4000000)],
      [lonCell |-> Num(9),  latCell |-> Num(1),  areaCell |-> Num(25000000)],
      [lonCell |-> Num(6),  latCell |-> Num(-2), areaCell |-> Num(4000000)],
      [lonCell |-> Num(-7), latCell |-> Num(3),  areaCell |-> Inf],
      [lonCell |-> NaN,     latCell |-> Num(1),  areaCell |-> Num(4000000)],
      [lonCell |-> Num(13), latCell |-> Num(-1), areaCell |-> Num(-1)] }

MeshFiles == UNION { [1..n -> MeshCells] : n \in 0..MaxPoints }

\* The run of mesh_gen_MPASA.py is not part of a run of the preview script.
MeshIdle ==
    /\ cfg = [dxWindowConst |-> TRUE, dxMax |-> 0, dxMin |-> 0, hasWindowText |-> FALSE,
              rows |-> <<>>, dlonBase |-> 0, dlatBase |-> 0]
    /\ pc = "idle" /\ err = ""
    /\ meshType = "" /\ maxdx = 0 /\ mindx = 0 /\ mindxBound = FALSE
    /\ nw = 0 /\ clon = <<>> /\ clat = <<>> /\ diam = <<>> /\ sigx = <<>> /\ dxMin = <<>>
    /\ nlat = 0 /\ nlon = 0 /\ lat = <<>> /\ lon = <<>>
    /\ amp = 0 /\ cellWidth = <<>> /\ k = 0 /\ j = 0 /\ i = 0
    /\ ret = <<>> /\ meshField = <<>>

PlotInit ==
    /\ MeshIdle
    /\ pts \in MeshFiles
    /\ ppc = "load" /\ perr = ""
    /\ lonP = <<>> /\ latP = <<>> /\ val = <<>> /\ levels = <<>> /\ rendered = <<>>

\* Lines 24-28.
Load ==
    /\ ppc = "load"
    /\ lonP' = [n \in 1..Len(pts) |-> ToDegrees(pts[n].lonCell)]
    /\ latP' = [n \in 1..Len(pts) |-> ToDegrees(pts[n].latCell)]
    /\ val' = [n \in 1..Len(pts) |-> WidthOfArea(pts[n].areaCell)]
    /\ ppc' = "sanitize"
    /\ UNCHANGED <<pts, perr, levels, rendered>>
    /\ UNCHANGED meshVars

\* a[m] for a boolean mask m: the elements of a whose mask is TRUE, in order.
RECURSIVE Masked(_, _)
Masked(a, m) ==
    IF a = <<>> THEN <<>>
    ELSE IF Head(m) THEN <<Head(a)>> \o Masked(Tail(a), Tail(m))
         ELSE Masked(Tail(a), Tail(m))

\* Line 31.
FiniteMask(lo, la, w) ==
    [n \in 1..Len(lo) |-> IsFinite(lo[n]) /\ IsFinite(la[n]) /\ IsFinite(w[n])]

\* Lines 31-32.
Sanitize ==
    /\ ppc = "sanitize"
    /\ LET m == FiniteMask(lonP, latP, val)
       IN  /\ lonP' = Masked(lonP, m)
           /\ latP' = Masked(latP, m)
           /\ val' = Masked(val, m)
    /\ ppc' = "check"
    /\ UNCHANGED <<pts, perr, levels, rendered>>
    /\ UNCHANGED meshVars

\* lon.size < 3
TooFew(n) == n < MinValidPoints

\* Lines 35-36.
CheckCount ==
    /\ ppc = "check"
    /\ IF TooFew(Len(lonP))
       THEN ppc' = "error" /\ perr' = "ValueError"
       ELSE ppc' = "wrap" /\ perr' = perr
    /\ UNCHANGED <<pts, lonP, latP, val, levels, rendered>>
    /\ UNCHANGED meshVars

\* ((lon + 180.0) % 360.0) - 180.0; numpy's % takes the sign of the divisor.
WrapOnlyShift(l) == (l + HalfTurn) - HalfTurn

WrapLongitude(l) == ((l + HalfTurn) % FullTurn) - HalfTurn

\* Line 39.
WrapLon ==
    /\ ppc = "wrap"
    /\ lonP' = [n \in 1..Len(lonP) |-> Num(WrapLongitude(lonP[n].v))]
    /\ ppc' = "levels"
    /\ UNCHANGED <<pts, perr, latP, val, levels, rendered>>
    /\ UNCHANGED meshVars

SeqMin(a) == CHOOSE m \in {a[n].v : n \in 1..Len(a)} : \A n \in 1..Len(a) : m <= a[n].v

SeqMax(a) == CHOOSE m \in {a[n].v : n \in 1..Len(a)} : \A n \in 1..Len(a) : m >= a[n].v

\* Lines 42-48: the ends of the contour levels; when all widths are equal the
\* range becomes 0 .. vmin + 1e-6 (eps marks the added 1e-6).
Levels ==
    /\ ppc = "levels"
    /\ LET vmin == SeqMin(val)
           vmax == SeqMax(val)
       IN  levels' = IF vmin = vmax
                     THEN [lo |-> 0, hi |-> vmin, eps |-> TRUE]
                     ELSE [lo |-> vmin, hi |-> vmax, eps |-> FALSE]
    /\ ppc' = "triangulate"
    /\ UNCHANGED <<pts, perr, lonP, latP, val, rendered>>
    /\ UNCHANGED meshVars

DistinctPoints == { <<lonP[n].v, latP[n].v>> : n \in 1..Len(lonP) }

\* Line 51: mtri.Triangulation(lon, lat).
Triangulate ==
    /\ ppc = "triangulate"
    /\ ppc' = "plot"
    /\ UNCHANGED <<pts, perr, lonP, latP, val, levels, rendered>>
    /\ UNCHANGED meshVars

\* Line 51: the triangulation library (outside the repository) may reject
\* fewer than three distinct points; both outcomes are admitted.
TriangulateRaise ==
    /\ ppc = "triangulate" /\ Cardinality(DistinctPoints) < MinValidPoints
    /\ ppc' = "error" /\ perr' = "RuntimeError"
    /\ UNCHANGED <<pts, lonP, latP, val, levels, rendered>>
    /\ UNCHANGED meshVars

\* Lines 54-92: the figure is drawn from the triangulation and saved.
Render ==
    /\ ppc = "plot"
    /\ rendered' = lonP
    /\ ppc' = "done"
    /\ UNCHANGED <<pts, perr, lonP, latP, val, levels>>
    /\ UNCHANGED meshVars

PlotNext ==
    \/ Load
    \/ Sanitize
    \/ CheckCount
    \/ WrapLon
    \/ Levels
    \/ Triangulate
    \/ TriangulateRaise
    \/ Render

PlotSpec == PlotInit /\ [][PlotNext]_vars

(***************************************************************************)
(* Properties of a run of mesh_gen_MPASA.py (specification Spec).          *)
(***************************************************************************)
Returned == pc \in {"returned", "done"}

\* A field was returned and the figure of lines 178-205 was drawn from levels
\* that increase over a grid of at least 2 x 2.
ReturnedAfterRegularPlot == Returned /\ ~ContourInputDegenerate

\* The configuration-input contract: positive grid spacing within 180/90
\* degrees, minWidthKm <= maxWidthKm, every window with diameter > 0 and
\* transition width > 0.
ValidConfig ==
    /\ cfg.dlonBase > 0 /\ cfg.dlonBase <= 180
    /\ cfg.dlatBase > 0 /\ cfg.dlatBase <= 90
    /\ cfg.dxWindowConst => cfg.dxMin <= cfg.dxMax
    /\ \A n \in 1..Len(cfg.rows) : cfg.rows[n].diam > 0 /\ cfg.rows[n].sigx > 0

\* What the configuration says, independently of the run's variables.
CfgAmp == fl(cfg.dxMax - cfg.dxMin)

CfgFloor == fl(cfg.dxMax - CfgAmp)

CfgDist(n, c) == haversine(lon[c[2] + 1], lat[c[1] + 1], cfg.rows[n].clon, cfg.rows[n].clat)

CfgInCore(n, c) == 2 * CfgDist(n, c) < 1000 * cfg.rows[n].diam

CfgContribution(n, c) ==
    CellContribution(CfgAmp, CfgDist(n, c), 1000 * cfg.rows[n].diam, 1000 * cfg.rows[n].sigx)

RECURSIVE CfgSum(_, _)
CfgSum(n, c) ==
    IF n = 1 THEN CfgContribution(1, c) ELSE fl(CfgSum(n - 1, c) + CfgContribution(n, c))

CfgMin(a, b) == IF a < b THEN a ELSE b

\* The value of cell c were window n the only window.
CfgAlone(n, c) == fl(cfg.dxMax - CfgMin(CfgContribution(n, c), CfgAmp))

\* C1 (as claimed): for every valid configuration every cell of the returned
\* field satisfies minWidthKm <= value <= maxWidthKm.
C1_FieldWithinMinMax ==
    (ReturnedAfterRegularPlot /\ ValidConfig) =>
        \A c \in DOMAIN ret : cfg.dxMin <= ret[c] /\ ret[c] <= cfg.dxMax

\* C1 (amended): for every valid configuration every cell of the returned field
\* satisfies maxWidthKm - amp <= value <= maxWidthKm, amp the computed
\* difference maxWidthKm - minWidthKm; the lower bound is minWidthKm when that
\* difference is computed without rounding.
C1_FieldWithinRoundedRange ==
    (Returned /\ ValidConfig) =>
        \A c \in DOMAIN ret :
            /\ CfgFloor <= ret[c] /\ ret[c] <= cfg.dxMax
            /\ Representable(cfg.dxMax - cfg.dxMin) => cfg.dxMin <= ret[c]

\* Two overlapping windows whose contributions, each below amp, add up to more
\* than amp at a cell of a returned field.
C1_Witness ==
    /\ pc = "done" /\ ValidConfig /\ nw = 2
    /\ \E c \in DOMAIN ret :
        /\ CfgContribution(1, c) < CfgAmp /\ CfgContribution(2, c) < CfgAmp
        /\ CfgContribution(1, c) + CfgContribution(2, c) > CfgAmp
        /\ ret[c] = CfgFloor

\* C2 (as claimed): for every configuration that satisfies the contract every
\* cell of the returned field is strictly greater than 0.
C2_StrictlyPositive ==
    (ReturnedAfterRegularPlot /\ ValidConfig) => \A c \in DOMAIN ret : ret[c] > 0

\* C2 (amended): for every configuration that satisfies the contract and whose
\* computed floor maxWidthKm - amp is greater than 0, every cell of the
\* returned field is strictly greater than 0.
C2_PositiveWhenFloorPositive ==
    (Returned /\ ValidConfig /\ CfgFloor > 0) => \A c \in DOMAIN ret : ret[c] > 0

\* A returned field with windows whose floor is positive and is attained.
C2_Witness ==
    /\ pc = "done" /\ ValidConfig /\ nw >= 1 /\ CfgFloor > 0
    /\ \E c \in DOMAIN ret : ret[c] = CfgFloor

\* C3: with zero windows (uniform mesh path or empty window list) every cell of
\* the returned field equals maxWidthKm exactly, over the whole grid, and the
\* run never passes through conversion, contribution, sum, clip or subtraction.
C3_NoWindowsUniformMax ==
    /\ (Returned /\ nw = 0) =>
          /\ DOMAIN ret = Cells
          /\ \A c \in DOMAIN ret : ret[c] = cfg.dxMax
    /\ ((cfg.dxWindowConst /\ cfg.dxMin = cfg.dxMax) \/ cfg.rows = <<>>) =>
          pc \notin {"convert", "loop", "sum", "clip", "subtract"}

\* A variable-resolution run with an empty window list that returned a
\* non-empty field.
C3_Witness ==
    /\ pc = "done" /\ meshType = "VR" /\ cfg.rows = <<>> /\ cfg.dxMin < cfg.dxMax
    /\ ValidConfig /\ ret # <<>> /\ Cardinality(DOMAIN ret) >= 9

\* C4 (as claimed): a cell closer to some window's centre than that window's
\* radius has the final value minWidthKm exactly.
C4_CoreEqualsMin ==
    (ReturnedAfterRegularPlot /\ ValidConfig /\ nw >= 1) =>
        \A c \in DOMAIN ret : \A n \in 1..Len(cfg.rows) :
            CfgInCore(n, c) => ret[c] = cfg.dxMin

\* C4 (amended): such a cell has the final value maxWidthKm - amp exactly, amp
\* the computed difference maxWidthKm - minWidthKm, whatever the other windows
\* contribute; that value is minWidthKm when the difference is computed
\* without rounding.
C4_CoreEqualsMaxMinusAmp ==
    (Returned /\ ValidConfig /\ nw >= 1) =>
        \A c \in DOMAIN ret : \A n \in 1..Len(cfg.rows) :
            CfgInCore(n, c) =>
                /\ ret[c] = CfgFloor
                /\ Representable(cfg.dxMax - cfg.dxMin) => ret[c] = cfg.dxMin

\* A cell at the centre of one window where another window contributes too.
C4_Witness ==
    /\ pc = "done" /\ ValidConfig /\ nw = 2 /\ cfg.dxMin > 0
    /\ \E c \in DOMAIN ret :
        /\ CfgDist(1, c) = 0 /\ CfgInCore(1, c)
        /\ ~CfgInCore(2, c) /\ CfgContribution(2, c) > 0
        /\ ret[c] = cfg.dxMin

\* C5 (as claimed), for a window with a zero or negative diameter or transition
\* width in a configuration that is otherwise valid: the run stops with an
\* error before any grid is allocated and before the synthesis loop; no field
\* is returned or handed to the mesh builder.
C5_MalformedFailsFast ==
    ( /\ pc # "idle" /\ cfg.dxWindowConst /\ cfg.dxMin < cfg.dxMax /\ cfg.hasWindowText
      /\ cfg.dlonBase > 0 /\ cfg.dlatBase > 0
      /\ \E n \in 1..Len(cfg.rows) : cfg.rows[n].diam <= 0 \/ cfg.rows[n].sigx <= 0 )
    =>  /\ pc \in {"start", "grid", "error"}
        /\ lat = <<>> /\ lon = <<>> /\ cellWidth = <<>>
        /\ ret = <<>> /\ meshField = <<>>

\* C6 (as claimed): the mesh kind is "QU" whenever no windows are configured or
\* the global minimum equals the global maximum, "VR" in every other case
\* (stated of the runs of a valid configuration that return a field).
C6_UniformIffNoWindowsOrEqual ==
    (ReturnedAfterRegularPlot /\ ValidConfig) =>
        (meshType = "QU" <=>
            (cfg.rows = <<>> \/ (cfg.dxWindowConst /\ cfg.dxMin = cfg.dxMax)))

\* C6 (amended): the mesh kind is "QU" exactly when dxWindowConst is true and
\* the global minimum equals the global maximum, "VR" in every other case,
\* an empty window list included; a "QU" run has zero windows.
C6_UniformIffConstAndEqual ==
    pc \notin {"idle", "start"} =>
        /\ meshType \in {"QU", "VR"}
        /\ meshType = "QU" <=> (cfg.dxWindowConst /\ cfg.dxMin = cfg.dxMax)
        /\ meshType = "QU" => nw = 0

\* A run with no window configured and different widths: its kind is "VR".
C6_Witness ==
    /\ pc = "plot" /\ cfg.hasWindowText /\ cfg.rows = <<>> /\ cfg.dxWindowConst
    /\ cfg.dxMin # cfg.dxMax /\ meshType = "VR" /\ nw = 0

\* C7 (as claimed): with per-window minimum widths (dxWindowConst false, five
\* columns in every row) the run is not ended by an error.
C7_PerWindowMinAccepted ==
    ( /\ pc # "idle" /\ ~cfg.dxWindowConst /\ cfg.hasWindowText
      /\ cfg.dlonBase > 0 /\ cfg.dlatBase > 0
      /\ \A n \in 1..Len(cfg.rows) :
            cfg.rows[n].hasDxMin /\ cfg.rows[n].diam > 0 /\ cfg.rows[n].sigx > 0 )
    => pc # "error"

\* C9 (as claimed): two windows that each contribute less than amp at a cell
\* yield a value lower than either window alone would (stated of the cells
\* where both contributions are greater than 0).
C9_OverlapStrictlyLower ==
    (ReturnedAfterRegularPlot /\ ValidConfig /\ nw = 2) =>
        \A c \in DOMAIN ret :
            ( /\ 0 < CfgContribution(1, c) /\ CfgContribution(1, c) < CfgAmp
              /\ 0 < CfgContribution(2, c) /\ CfgContribution(2, c) < CfgAmp ) =>
                ret[c] < CfgAlone(1, c) /\ ret[c] < CfgAlone(2, c)

\* C9 (amended): with one or more windows every cell equals
\* maxWidthKm - min(S, amp), S the sum over all windows of the cell's
\* contributions added in window order; the contributions are added, so for a
\* valid configuration the value is never higher than any window alone would
\* give.
C9_SumClipSubtract ==
    (Returned /\ nw >= 1) =>
        \A c \in DOMAIN ret :
            /\ ret[c] = fl(cfg.dxMax - CfgMin(CfgSum(nw, c), CfgAmp))
            /\ ValidConfig => \A n \in 1..nw : ret[c] <= CfgAlone(n, c)

\* Two windows reinforce each other at a cell without reaching amp.
C9_Witness ==
    /\ pc = "done" /\ ValidConfig /\ nw = 2
    /\ \E c \in DOMAIN ret :
        /\ CfgContribution(1, c) > 0 /\ CfgContribution(2, c) > 0
        /\ CfgContribution(1, c) + CfgContribution(2, c) < CfgAmp
        /\ ret[c] < CfgAlone(1, c) /\ ret[c] < CfgAlone(2, c)

AllConverted ==
    \A n \in 1..nw : diam[n] = 1000 * cfg.rows[n].diam /\ sigx[n] = 1000 * cfg.rows[n].sigx

\* C10: each window's diameter and transition width are multiplied by 1000
\* exactly once, window by window, all before the first cell is evaluated; at
\* every cell evaluation and afterwards they are 1000 times the configured
\* values; the window centres are never changed.
C10_ConvertedOnceBeforeLoop ==
    /\ (pc \in {"grid", "report", "branch"} /\ meshType = "VR") =>
          \A n \in 1..nw : diam[n] = cfg.rows[n].diam /\ sigx[n] = cfg.rows[n].sigx
    /\ pc = "convert" =>
          \A n \in 1..nw :
              /\ diam[n] = (IF n <= k THEN 1000 * cfg.rows[n].diam ELSE cfg.rows[n].diam)
              /\ sigx[n] = (IF n <= k THEN 1000 * cfg.rows[n].sigx ELSE cfg.rows[n].sigx)
    /\ (pc \in {"loop", "sum", "clip", "subtract", "plot", "return", "returned", "done"}
        /\ nw > 0) => AllConverted
    /\ (pc = "error" /\ err = "ZeroDivisionError" /\ cellWidth # <<>>) => AllConverted
    /\ (pc \notin {"idle", "start"} /\ nw > 0) =>
          \A n \in 1..nw : clon[n] = cfg.rows[n].clon /\ clat[n] = cfg.rows[n].clat

\* The loop is evaluating a cell of the second of two windows.
C10_Witness ==
    /\ pc = "loop" /\ nw = 2 /\ k = 1 /\ j >= 1 /\ i >= 1
    /\ cfg.rows[1].diam # 0 /\ cfg.rows[2].sigx # 0

(***************************************************************************)
(* Properties of a run of plot_cellWidth_raw_mesh.py (specification        *)
(* PlotSpec).                                                              *)
(***************************************************************************)
\* A mesh cell whose longitude, latitude and width are all finite.
CellOk(p) ==
    /\ p.lonCell.kind = "num" /\ p.latCell.kind = "num"
    /\ p.areaCell.kind = "num" /\ p.areaCell.v >= 0

OkCells == SelectSeq(pts, CellOk)

\* C8: the points with a non-finite longitude, latitude or width are removed
\* first; with fewer than 3 left the script raises ValueError before any
\* longitude is wrapped, any level is built, anything is triangulated or drawn;
\* with 3 or more left every longitude from the wrap on, and every longitude
\* drawn, lies in [-180, 180] and differs from the file's by whole turns.
C8_SanitizeCheckWrap ==
    /\ ppc \in {"check", "wrap", "levels", "triangulate", "plot", "done", "error"} =>
          /\ Len(lonP) = Len(OkCells) /\ Len(latP) = Len(OkCells) /\ Len(val) = Len(OkCells)
          /\ \A n \in 1..Len(lonP) :
                lonP[n].kind = "num" /\ latP[n].kind = "num" /\ val[n].kind = "num"
    /\ (Len(OkCells) < 3 /\ ppc # "idle") =>
          /\ ppc \in {"load", "sanitize", "check", "error"}
          /\ ppc = "error" =>
                /\ perr = "ValueError"
                /\ \A n \in 1..Len(lonP) : lonP[n].v = 30 * OkCells[n].lonCell.v
          /\ levels = <<>> /\ rendered = <<>>
    /\ Len(OkCells) >= 3 => perr # "ValueError"
    /\ ppc \in {"levels", "triangulate", "plot", "done"} =>
          \A n \in 1..Len(lonP) :
              /\ -180 <= lonP[n].v /\ lonP[n].v <= 180
              /\ (lonP[n].v - 30 * OkCells[n].lonCell.v) % 360 = 0
    /\ ppc = "done" =>
          /\ Len(rendered) >= 3
          /\ \A n \in 1..Len(rendered) : -180 <= rendered[n].v /\ rendered[n].v <= 180

\* A file of four cells, one of them not finite, one with a longitude beyond
\* 180 degrees, drawn to the end.
C8_Witness ==
    /\ ppc = "done" /\ Len(pts) = 4 /\ Len(OkCells) = 3
    /\ \E n \in 1..Len(OkCells) :
          30 * OkCells[n].lonCell.v > 180 /\ rendered[n].v < 0

=============================================================================
